---- MODULE Spec2Model ----
(***************************************************************************)
(* Model of the n8n-clone demo application: the auth-gated pages, the      *)
(* page that prefetches getUsers into a per-request query client and       *)
(* dehydrates it, and the Client component that reads the hydrated cache   *)
(* through useSuspenseQuery.                                               *)
(*                                                                         *)
(* An async server component runs to completion between its awaits, so     *)
(* every action below is the code between two awaits (or, in the browser,  *)
(* one render pass or one settled promise).                                *)
(***************************************************************************)
EXTENDS Integers, FiniteSets, Sequences, TLC

\* ------------------------------------------------------------------ bounds
NumReqs == 2        \* requests in flight
MaxNetReqs == 2     \* client-side getUsers requests of one browser page

Reqs == 1..NumReqs
ClientIds == 1..NumReqs

\* The value of `data` while a query holds none (JavaScript undefined);
\* a fetched user array is a one-element tuple holding the table's records.
Undefined == << >>

Pages == {"protected", "prisma", "signup", "prefetch"}
GuardedPages == {"protected", "signup"}

VARIABLES
    dbUp,         \* the database answers
    pendingCfg,   \* the query client's dehydrate option also keeps pending queries
    page,         \* route each request asked for ("idle": not yet issued)
    authed,       \* the request carries a valid session
    pc,           \* position of the request's server component
    out,          \* what the server answered: none | redirect | error | html
    rendered,     \* the parts of the page in the answer
    outUsers,     \* the user data serialized into the answer by the server component
    dbReads,      \* getUsers / findMany invocations made for the request
    memo,         \* React cache() slot of getQueryClient for the request (0: empty)
    nextClient,   \* next query client instance to be constructed
    qc,           \* HomePage's local `queryClient` (0: not assigned)
    serverCache,  \* query client instance -> state of the getUsers query in it
    serverFetch,  \* the prefetch's server-side fetch: none | inflight | ok | failed
    dehydrated,   \* the state handed to HydrationBoundary
    clientCache,  \* the browser's query cache entry for getUsers
    view,         \* what the Suspense subtree shows: unmounted | spinner | data | error
    shown,        \* the users value Client's body rendered
    netReqs       \* client-side getUsers network requests

vars == << dbUp, pendingCfg, page, authed, pc, out, rendered, outUsers,
           dbReads, memo, nextClient, qc, serverCache, serverFetch, dehydrated,
           clientCache, view, shown, netReqs >>

serverVars == << page, authed, pc, out, rendered, outUsers, dbReads >>
prefetchVars == << memo, nextClient, qc, serverCache, serverFetch, dehydrated >>
browserVars == << clientCache, view, shown, netReqs >>
worldVars == << dbUp, pendingCfg >>

\* ------------------------------------------------------------- page parts
ProtectedParts == {"Protected Server Components", "users", "Logout"}
PrismaParts == {"users"}
SignupParts == {"RegisterForm"}
PrefetchParts == {"HydrationBoundary", "Suspense", "Client"}

EmptyQuery == [status |-> "none", data |-> Undefined]
NoDehydrated == [client |-> 0, status |-> "none", data |-> Undefined, promise |-> "none"]
NoClientQuery == [status |-> "none", data |-> Undefined, source |-> "none"]

Init ==
    /\ dbUp \in BOOLEAN
    /\ pendingCfg \in BOOLEAN
    /\ page = [r \in Reqs |-> "idle"]
    /\ authed = [r \in Reqs |-> FALSE]
    /\ pc = [r \in Reqs |-> "idle"]
    /\ out = [r \in Reqs |-> "none"]
    /\ rendered = [r \in Reqs |-> {}]
    /\ outUsers = [r \in Reqs |-> Undefined]
    /\ dbReads = [r \in Reqs |-> 0]
    /\ memo = [r \in Reqs |-> 0]
    /\ nextClient = 1
    /\ qc = [r \in Reqs |-> 0]
    /\ serverCache = [c \in ClientIds |-> EmptyQuery]
    /\ serverFetch = [r \in Reqs |-> "none"]
    /\ dehydrated = [r \in Reqs |-> NoDehydrated]
    /\ clientCache = [r \in Reqs |-> NoClientQuery]
    /\ view = [r \in Reqs |-> "unmounted"]
    /\ shown = [r \in Reqs |-> Undefined]
    /\ netReqs = [r \in Reqs |-> 0]

\* ------------------------------------------------------------ environment
\* A browser asks for a route. `authed` is the session as the page's guard
\* will see it; a page without a guard never reads it.
Request(r) ==
    /\ page[r] = "idle"
    /\ \E p \in Pages, a \in BOOLEAN :
          /\ p \notin GuardedPages => ~a
          /\ page' = [page EXCEPT ![r] = p]
          /\ authed' = [authed EXCEPT ![r] = a]
    /\ pc' = [pc EXCEPT ![r] = "start"]
    /\ UNCHANGED << out, rendered, outUsers, dbReads >>
    /\ UNCHANGED << prefetchVars, browserVars, worldVars >>

DbFail ==
    /\ dbUp
    /\ dbUp' = FALSE
    /\ UNCHANGED << pendingCfg, serverVars, prefetchVars, browserVars >>

DbRecover ==
    /\ ~dbUp
    /\ dbUp' = TRUE
    /\ UNCHANGED << pendingCfg, serverVars, prefetchVars, browserVars >>

\* ------------------------------------------------- missing repository code
\* @/lib/auth-utils: the guard of a page for signed-in users redirects a
\* request without a session (redirect() throws; nothing after runs).
requireAuth(session) == IF session THEN "ok" ELSE "redirect"

\* @/lib/auth-utils: the guard of a page for signed-out users redirects a
\* request that already has a session.
requireUnauth(session) == IF session THEN "redirect" ELSE "ok"

\* The getUsers procedure: prisma.user.findMany() over the user table, whose
\* records are opaque here.
getUsers == << "user records" >>

\* JSON.stringify: undefined stays undefined, an array becomes its text.
JSONstringify(v) == IF v = Undefined THEN Undefined ELSE << "[", v[1], "]" >>

\* ------------------------------------------- protected HomePage (page.tsx)
\* A guard that does not stop the component: getUsers is called and the page
\* goes on for every request.
HomePageRequireAuth_NoGuard(r) ==
    /\ page[r] = "protected"
    /\ pc[r] = "start"
    /\ pc' = [pc EXCEPT ![r] = "awaitUsers"]
    /\ dbReads' = [dbReads EXCEPT ![r] = @ + 1]
    /\ UNCHANGED << page, authed, out, rendered, outUsers >>
    /\ UNCHANGED << prefetchVars, browserVars, worldVars >>

\* getUsers started together with the guard (Promise.all): the redirect still
\* wins, but the read was issued.
HomePageRequireAuth_Parallel(r) ==
    /\ page[r] = "protected"
    /\ pc[r] = "start"
    /\ dbReads' = [dbReads EXCEPT ![r] = @ + 1]
    /\ IF requireAuth(authed[r]) = "redirect"
       THEN /\ out' = [out EXCEPT ![r] = "redirect"]
            /\ pc' = [pc EXCEPT ![r] = "done"]
       ELSE /\ pc' = [pc EXCEPT ![r] = "awaitUsers"]
            /\ out' = out
    /\ UNCHANGED << page, authed, rendered, outUsers >>
    /\ UNCHANGED << prefetchVars, browserVars, worldVars >>

\* await requireAuth(); then, in the same turn, caller.getUsers() is called.
HomePageRequireAuth(r) ==
    /\ page[r] = "protected"
    /\ pc[r] = "start"
    /\ IF requireAuth(authed[r]) = "redirect"
       THEN /\ out' = [out EXCEPT ![r] = "redirect"]
            /\ pc' = [pc EXCEPT ![r] = "done"]
            /\ dbReads' = dbReads
       ELSE /\ pc' = [pc EXCEPT ![r] = "awaitUsers"]
            /\ dbReads' = [dbReads EXCEPT ![r] = @ + 1]
            /\ out' = out
    /\ UNCHANGED << page, authed, rendered, outUsers >>
    /\ UNCHANGED << prefetchVars, browserVars, worldVars >>

\* caller.getUsers() resolved: the JSX is returned.
HomePageReturn(r) ==
    /\ page[r] = "protected"
    /\ pc[r] = "awaitUsers"
    /\ dbUp
    /\ outUsers' = [outUsers EXCEPT ![r] = JSONstringify(getUsers)]
    /\ rendered' = [rendered EXCEPT ![r] = ProtectedParts]
    /\ out' = [out EXCEPT ![r] = "html"]
    /\ pc' = [pc EXCEPT ![r] = "done"]
    /\ UNCHANGED << page, authed, dbReads >>
    /\ UNCHANGED << prefetchVars, browserVars, worldVars >>

\* A try/catch around getUsers that still returns the page shell.
HomePageThrow_Caught(r) ==
    /\ page[r] = "protected"
    /\ pc[r] = "awaitUsers"
    /\ ~dbUp
    /\ rendered' = [rendered EXCEPT ![r] = ProtectedParts \ {"users"}]
    /\ out' = [out EXCEPT ![r] = "html"]
    /\ pc' = [pc EXCEPT ![r] = "done"]
    /\ UNCHANGED << page, authed, outUsers, dbReads >>
    /\ UNCHANGED << prefetchVars, browserVars, worldVars >>

\* caller.getUsers() rejected: the await throws out of HomePage.
HomePageThrow(r) ==
    /\ page[r] = "protected"
    /\ pc[r] = "awaitUsers"
    /\ ~dbUp
    /\ out' = [out EXCEPT ![r] = "error"]
    /\ pc' = [pc EXCEPT ![r] = "done"]
    /\ UNCHANGED << page, authed, rendered, outUsers, dbReads >>
    /\ UNCHANGED << prefetchVars, browserVars, worldVars >>

\* ------------------------------------ HomePage over prisma (page.tsx:25)
HomePagePrismaCall(r) ==
    /\ page[r] = "prisma"
    /\ pc[r] = "start"
    /\ pc' = [pc EXCEPT ![r] = "awaitUsers"]
    /\ dbReads' = [dbReads EXCEPT ![r] = @ + 1]
    /\ UNCHANGED << page, authed, out, rendered, outUsers >>
    /\ UNCHANGED << prefetchVars, browserVars, worldVars >>

HomePagePrismaReturn(r) ==
    /\ page[r] = "prisma"
    /\ pc[r] = "awaitUsers"
    /\ dbUp
    /\ outUsers' = [outUsers EXCEPT ![r] = JSONstringify(getUsers)]
    /\ rendered' = [rendered EXCEPT ![r] = PrismaParts]
    /\ out' = [out EXCEPT ![r] = "html"]
    /\ pc' = [pc EXCEPT ![r] = "done"]
    /\ UNCHANGED << page, authed, dbReads >>
    /\ UNCHANGED << prefetchVars, browserVars, worldVars >>

HomePagePrismaThrow(r) ==
    /\ page[r] = "prisma"
    /\ pc[r] = "awaitUsers"
    /\ ~dbUp
    /\ out' = [out EXCEPT ![r] = "error"]
    /\ pc' = [pc EXCEPT ![r] = "done"]
    /\ UNCHANGED << page, authed, rendered, outUsers, dbReads >>
    /\ UNCHANGED << prefetchVars, browserVars, worldVars >>

\* ------------------------------------------------ Signup (signup/page.tsx)
\* The form returned whatever the guard said.
Signup_NoGuard(r) ==
    /\ page[r] = "signup"
    /\ pc[r] = "start"
    /\ rendered' = [rendered EXCEPT ![r] = SignupParts]
    /\ out' = [out EXCEPT ![r] = "html"]
    /\ pc' = [pc EXCEPT ![r] = "done"]
    /\ UNCHANGED << page, authed, outUsers, dbReads >>
    /\ UNCHANGED << prefetchVars, browserVars, worldVars >>

\* await requireUnauth(); return <RegisterForm />.
Signup(r) ==
    /\ page[r] = "signup"
    /\ pc[r] = "start"
    /\ IF requireUnauth(authed[r]) = "redirect"
       THEN /\ out' = [out EXCEPT ![r] = "redirect"]
            /\ rendered' = rendered
       ELSE /\ rendered' = [rendered EXCEPT ![r] = SignupParts]
            /\ out' = [out EXCEPT ![r] = "html"]
    /\ pc' = [pc EXCEPT ![r] = "done"]
    /\ UNCHANGED << page, authed, outUsers, dbReads >>
    /\ UNCHANGED << prefetchVars, browserVars, worldVars >>

\* ------------------------------------- query client (server and browser)
\* @/trpc/server: React's cache() keeps one query client per request; the
\* first call of a request constructs it.
getQueryClient(r) == IF memo[r] # 0 THEN memo[r] ELSE nextClient

\* queryClient.prefetchQuery: a query without data starts fetching and is
\* pending; the returned promise never rejects and is dropped by `void`.
prefetchQuery(q) ==
    IF q.status = "success" THEN q ELSE [status |-> "pending", data |-> Undefined]

\* dehydrate(queryClient): a snapshot, taken when it is called, of the
\* queries worth sending: those with data and, if the client is configured
\* so, the pending ones together with their promise.
dehydrate(c, q) ==
    IF q.status = "success"
    THEN [client |-> c, status |-> "success", data |-> q.data, promise |-> "none"]
    ELSE IF q.status = "pending" /\ pendingCfg
    THEN [client |-> c, status |-> "pending", data |-> Undefined, promise |-> "pending"]
    ELSE [client |-> c, status |-> "absent", data |-> Undefined, promise |-> "none"]

\* HydrationBoundary: the dehydrated queries are put into the browser's
\* cache; a dehydrated promise that is already fulfilled may be read at once
\* (sync) or only when it is awaited.
hydrate(d, sync) ==
    IF d.status = "success"
    THEN [status |-> "success", data |-> d.data, source |-> "hydrated"]
    ELSE IF d.status = "pending"
    THEN IF d.promise = "fulfilled" /\ sync
         THEN [status |-> "success", data |-> d.data, source |-> "hydrated"]
         ELSE [status |-> "pending", data |-> Undefined, source |-> "promise"]
    ELSE NoClientQuery

\* --------------------------------- prefetching HomePage (signup/page.tsx)
\* One query client for the whole module instead of one per request.
HomePagePrefetch_Shared(r) ==
    /\ page[r] = "prefetch"
    /\ pc[r] = "start"
    /\ LET c == 1
           q == prefetchQuery(serverCache[c])
       IN  /\ memo' = [memo EXCEPT ![r] = c]
           /\ nextClient' = nextClient
           /\ qc' = [qc EXCEPT ![r] = c]
           /\ serverCache' = [serverCache EXCEPT ![c] = q]
           /\ serverFetch' = [serverFetch EXCEPT ![r] =
                                IF serverCache[c].status = "success" THEN "none" ELSE "inflight"]
           /\ dbReads' = [dbReads EXCEPT ![r] =
                                IF serverCache[c].status = "success" THEN @ ELSE @ + 1]
           /\ dehydrated' = [dehydrated EXCEPT ![r] = dehydrate(c, q)]
    /\ rendered' = [rendered EXCEPT ![r] = PrefetchParts]
    /\ out' = [out EXCEPT ![r] = "html"]
    /\ pc' = [pc EXCEPT ![r] = "done"]
    /\ UNCHANGED << page, authed, outUsers >>
    /\ UNCHANGED << browserVars, worldVars >>

\* The whole component: there is no await in it, so getQueryClient(),
\* prefetchQuery(), dehydrate() and the return happen in one turn.
HomePagePrefetch(r) ==
    /\ page[r] = "prefetch"
    /\ pc[r] = "start"
    /\ LET c == getQueryClient(r)
           q == prefetchQuery(serverCache[c])
       IN  /\ memo' = [memo EXCEPT ![r] = c]
           /\ nextClient' = IF memo[r] # 0 THEN nextClient ELSE nextClient + 1
           /\ qc' = [qc EXCEPT ![r] = c]
           /\ serverCache' = [serverCache EXCEPT ![c] = q]
           /\ serverFetch' = [serverFetch EXCEPT ![r] =
                                IF serverCache[c].status = "success" THEN "none" ELSE "inflight"]
           /\ dbReads' = [dbReads EXCEPT ![r] =
                                IF serverCache[c].status = "success" THEN @ ELSE @ + 1]
           /\ dehydrated' = [dehydrated EXCEPT ![r] = dehydrate(c, q)]
    /\ rendered' = [rendered EXCEPT ![r] = PrefetchParts]
    /\ out' = [out EXCEPT ![r] = "html"]
    /\ pc' = [pc EXCEPT ![r] = "done"]
    /\ UNCHANGED << page, authed, outUsers >>
    /\ UNCHANGED << browserVars, worldVars >>

\* The prefetch's getUsers resolved: the data enters the request's query
\* client, and a dehydrated promise is fulfilled with it.
ServerFetchResolve(r) ==
    /\ serverFetch[r] = "inflight"
    /\ dbUp
    /\ serverCache' = [serverCache EXCEPT ![qc[r]] =
                          [status |-> "success", data |-> getUsers]]
    /\ serverFetch' = [serverFetch EXCEPT ![r] = "ok"]
    /\ dehydrated' = [dehydrated EXCEPT ![r] =
                          IF @.promise = "pending"
                          THEN [@ EXCEPT !.promise = "fulfilled", !.data = getUsers]
                          ELSE @]
    /\ UNCHANGED << memo, nextClient, qc >>
    /\ UNCHANGED << serverVars, browserVars, worldVars >>

\* The rejection escaping into the render, as with an unguarded promise.
ServerFetchReject_Unhandled(r) ==
    /\ serverFetch[r] = "inflight"
    /\ ~dbUp
    /\ serverCache' = [serverCache EXCEPT ![qc[r]] =
                          [status |-> "error", data |-> Undefined]]
    /\ serverFetch' = [serverFetch EXCEPT ![r] = "failed"]
    /\ dehydrated' = [dehydrated EXCEPT ![r] =
                          IF @.promise = "pending"
                          THEN [@ EXCEPT !.promise = "rejected"]
                          ELSE @]
    /\ out' = [out EXCEPT ![r] = "error"]
    /\ rendered' = [rendered EXCEPT ![r] = {}]
    /\ UNCHANGED << memo, nextClient, qc >>
    /\ UNCHANGED << page, authed, pc, outUsers, dbReads >>
    /\ UNCHANGED << browserVars, worldVars >>

\* The prefetch's getUsers rejected: prefetchQuery swallows the error, the
\* page already returned; a dehydrated promise is rejected.
ServerFetchReject(r) ==
    /\ serverFetch[r] = "inflight"
    /\ ~dbUp
    /\ serverCache' = [serverCache EXCEPT ![qc[r]] =
                          [status |-> "error", data |-> Undefined]]
    /\ serverFetch' = [serverFetch EXCEPT ![r] = "failed"]
    /\ dehydrated' = [dehydrated EXCEPT ![r] =
                          IF @.promise = "pending"
                          THEN [@ EXCEPT !.promise = "rejected"]
                          ELSE @]
    /\ UNCHANGED << memo, nextClient, qc >>
    /\ UNCHANGED << serverVars, browserVars, worldVars >>

\* ------------------------------------------------- Client (Client.tsx)
\* useQuery instead of useSuspenseQuery: the body renders while loading.
ClientView_NoSuspend(q) ==
    IF q.status = "error" THEN "error" ELSE "data"

\* What the Suspense subtree shows after Client ran with the query in state
\* q: useSuspenseQuery returns only with data, throws the promise while the
\* query is pending and throws the error once it failed.
ClientView(q) ==
    IF q.status = "success" THEN "data"
    ELSE IF q.status = "error" THEN "error"
    ELSE "spinner"

\* <div>{JSON.stringify(users)}</div>
ClientShown(q) == JSONstringify(q.data)

\* First render in the browser: HydrationBoundary hydrates, then Client
\* runs; a query that is not in the cache is fetched over the network.
ClientMount(r) ==
    /\ page[r] = "prefetch"
    /\ out[r] = "html"
    /\ view[r] = "unmounted"
    /\ \E sync \in BOOLEAN :
         LET h == hydrate(dehydrated[r], sync)
             q == IF h.status = "none"
                  THEN [status |-> "pending", data |-> Undefined, source |-> "network"]
                  ELSE h
         IN  /\ clientCache' = [clientCache EXCEPT ![r] = q]
             /\ netReqs' = [netReqs EXCEPT ![r] = IF h.status = "none" THEN @ + 1 ELSE @]
             /\ view' = [view EXCEPT ![r] = ClientView(q)]
             /\ shown' = [shown EXCEPT ![r] =
                             IF ClientView(q) = "data" THEN ClientShown(q) ELSE @]
    /\ UNCHANGED << serverVars, prefetchVars, worldVars >>

\* The browser's own getUsers request succeeded.
ClientFetchResolve(r) ==
    /\ clientCache[r].status = "pending"
    /\ clientCache[r].source = "network"
    /\ dbUp
    /\ clientCache' = [clientCache EXCEPT ![r] =
                          [status |-> "success", data |-> getUsers, source |-> "network"]]
    /\ UNCHANGED << view, shown, netReqs >>
    /\ UNCHANGED << serverVars, prefetchVars, worldVars >>

\* The browser's own getUsers request failed: the query retries or, with
\* its retries used up, ends in the error state.
ClientFetchReject(r) ==
    /\ clientCache[r].status = "pending"
    /\ clientCache[r].source = "network"
    /\ ~dbUp
    /\ \/ /\ netReqs[r] < MaxNetReqs
          /\ netReqs' = [netReqs EXCEPT ![r] = @ + 1]
          /\ clientCache' = clientCache
       \/ /\ clientCache' = [clientCache EXCEPT ![r] = [@ EXCEPT !.status = "error"]]
          /\ netReqs' = netReqs
    /\ UNCHANGED << view, shown >>
    /\ UNCHANGED << serverVars, prefetchVars, worldVars >>

\* The dehydrated promise arrived fulfilled.
StreamFulfil(r) ==
    /\ clientCache[r].status = "pending"
    /\ clientCache[r].source = "promise"
    /\ dehydrated[r].promise = "fulfilled"
    /\ clientCache' = [clientCache EXCEPT ![r] =
                          [status |-> "success", data |-> dehydrated[r].data,
                           source |-> "hydrated"]]
    /\ UNCHANGED << view, shown, netReqs >>
    /\ UNCHANGED << serverVars, prefetchVars, worldVars >>

\* The dehydrated promise arrived rejected: the first attempt of the query
\* failed and its retry is a request of the browser.
StreamReject(r) ==
    /\ clientCache[r].status = "pending"
    /\ clientCache[r].source = "promise"
    /\ dehydrated[r].promise = "rejected"
    /\ clientCache' = [clientCache EXCEPT ![r] = [@ EXCEPT !.source = "network"]]
    /\ netReqs' = [netReqs EXCEPT ![r] = @ + 1]
    /\ UNCHANGED << view, shown >>
    /\ UNCHANGED << serverVars, prefetchVars, worldVars >>

\* The suspended subtree is never rendered again.
ClientRerender_Never(r) ==
    /\ FALSE
    /\ UNCHANGED vars

\* The thrown promise settled: React renders Client again.
ClientRerender(r) ==
    /\ view[r] = "spinner"
    /\ clientCache[r].status \in {"success", "error"}
    /\ view' = [view EXCEPT ![r] = ClientView(clientCache[r])]
    /\ shown' = [shown EXCEPT ![r] =
                    IF ClientView(clientCache[r]) = "data"
                    THEN ClientShown(clientCache[r]) ELSE @]
    /\ UNCHANGED << clientCache, netReqs >>
    /\ UNCHANGED << serverVars, prefetchVars, worldVars >>

Next ==
    \/ \E r \in Reqs : Request(r)
    \/ DbFail
    \/ DbRecover
    \/ \E r \in Reqs : HomePageRequireAuth(r)
    \/ \E r \in Reqs : HomePageReturn(r)
    \/ \E r \in Reqs : HomePageThrow(r)
    \/ \E r \in Reqs : HomePagePrismaCall(r)
    \/ \E r \in Reqs : HomePagePrismaReturn(r)
    \/ \E r \in Reqs : HomePagePrismaThrow(r)
    \/ \E r \in Reqs : Signup(r)
    \/ \E r \in Reqs : HomePagePrefetch(r)
    \/ \E r \in Reqs : ServerFetchResolve(r)
    \/ \E r \in Reqs : ServerFetchReject(r)
    \/ \E r \in Reqs : ClientMount(r)
    \/ \E r \in Reqs : ClientFetchResolve(r)
    \/ \E r \in Reqs : ClientFetchReject(r)
    \/ \E r \in Reqs : StreamFulfil(r)
    \/ \E r \in Reqs : StreamReject(r)
    \/ \E r \in Reqs : ClientRerender(r)

Spec == Init /\ [][Next]_vars

\* React re-renders a suspended component once the promise it threw settles.
FairSpec == Spec /\ \A r \in Reqs : WF_vars(ClientRerender(r))

\* ================================================================ claims

\* The response of the prefetching page is complete: the HTML went out and
\* no dehydrated promise is still streaming.
HtmlComplete(r) == out[r] = "html" /\ dehydrated[r].promise # "pending"

\* The dehydrated state carries the getUsers data, as a query with data or
\* as a promise fulfilled with it.
DehydratedHasData(r) ==
    /\ dehydrated[r].status = "success" \/ dehydrated[r].promise = "fulfilled"
    /\ dehydrated[r].data # Undefined

\* C1: the protected HomePage's content (text, users, Logout) is in the
\* response only if requireAuth() did not redirect; a request without a
\* session ends redirected, with nothing rendered and no user data.
C1_ProtectedContentOnlyAfterAuth ==
    \A r \in Reqs : page[r] = "protected" =>
        /\ (rendered[r] # {} \/ outUsers[r] # Undefined) =>
              (requireAuth(authed[r]) = "ok" /\ out[r] = "html")
        /\ (requireAuth(authed[r]) = "redirect" /\ pc[r] = "done") =>
              (out[r] = "redirect" /\ rendered[r] = {} /\ outUsers[r] = Undefined)

C1_Witness ==
    \E r1, r2 \in Reqs :
        /\ page[r1] = "protected" /\ ~authed[r1] /\ out[r1] = "redirect"
        /\ page[r2] = "protected" /\ authed[r2] /\ rendered[r2] = ProtectedParts
        /\ outUsers[r2] # Undefined

\* C2: RegisterForm is in Signup's response only if requireUnauth() did not
\* redirect; a request that already has a session ends redirected without
\* the form.
C2_FormOnlyWhenUnauth ==
    \A r \in Reqs : page[r] = "signup" =>
        /\ rendered[r] # {} => (requireUnauth(authed[r]) = "ok" /\ out[r] = "html")
        /\ (requireUnauth(authed[r]) = "redirect" /\ pc[r] = "done") =>
              (out[r] = "redirect" /\ rendered[r] = {})

C2_Witness ==
    \E r1, r2 \in Reqs :
        /\ page[r1] = "signup" /\ authed[r1] /\ out[r1] = "redirect"
        /\ page[r2] = "signup" /\ ~authed[r2] /\ rendered[r2] = SignupParts

\* C3 (as claimed): on every render of the prefetching HomePage the getUsers
\* result is stored before the cache is dehydrated, so the dehydrated state
\* of a complete response always contains the getUsers data.
C3_DehydratedAlwaysHasUsers ==
    \A r \in Reqs :
        (page[r] = "prefetch" /\ HtmlComplete(r)) => DehydratedHasData(r)

\* C4 (as claimed): when the server has prefetched getUsers, Client's first
\* render in the browser shows the data at once and issues no request.
C4_MountRendersFromHydration ==
    [][\A r \in Reqs :
          (view[r] = "unmounted" /\ view'[r] # "unmounted" /\ serverFetch[r] = "ok")
              => (view'[r] = "data" /\ netReqs'[r] = 0)]_vars

\* C5: while the getUsers query of a mounted Client is pending the Spinner
\* is shown, and once the data is in the cache the suspended Client is
\* eventually rendered with it.
C5_SpinnerThenData ==
    /\ [](\A r \in Reqs :
            (view[r] # "unmounted" /\ clientCache[r].status = "pending")
                => view[r] = "spinner")
    /\ \A r \in Reqs :
          (view[r] = "spinner" /\ clientCache[r].status = "success")
              ~> (view[r] = "data" /\ shown[r] # Undefined)

C5_Witness ==
    \E r \in Reqs :
        /\ view[r] = "spinner"
        /\ clientCache[r].status = "success"
        /\ clientCache[r].source = "network"
        /\ netReqs[r] >= 1

\* C6: whenever Client's body has been rendered, the users it rendered are
\* defined and are the data of the query, hydrated or fetched.
C6_RenderedUsersDefined ==
    \A r \in Reqs : view[r] = "data" =>
        /\ shown[r] # Undefined
        /\ clientCache[r].status = "success"
        /\ shown[r] = JSONstringify(clientCache[r].data)

C6_Witness ==
    /\ \E r \in Reqs : view[r] = "data" /\ clientCache[r].source = "hydrated"
    /\ \E r \in Reqs : view[r] = "data" /\ clientCache[r].source = "network"

\* C7: within a request getQueryClient() keeps returning the instance that
\* HomePage prefetched into and dehydrated, and that instance is the query
\* client of no other request.
C7_QueryClientPerRequest ==
    \A r \in Reqs : dehydrated[r].status # "none" =>
        /\ dehydrated[r].client = qc[r]
        /\ getQueryClient(r) = qc[r]
        /\ serverCache[qc[r]].status # "none"
        /\ \A r2 \in Reqs \ {r} : qc[r2] # dehydrated[r].client

C7_Witness ==
    \E r1, r2 \in Reqs :
        /\ r1 # r2
        /\ dehydrated[r1].status # "none" /\ serverFetch[r1] = "inflight"
        /\ dehydrated[r2].status # "none" /\ serverFetch[r2] = "ok"

\* C8: when caller.getUsers() fails after requireAuth() passed, the failure
\* leaves the protected HomePage: the response is the error and no part of
\* the page, neither user data nor Logout, is rendered.
C8_GetUsersFailurePropagates ==
    [][\A r \in Reqs :
          (page[r] = "protected" /\ pc[r] = "awaitUsers" /\ pc'[r] # "awaitUsers" /\ ~dbUp)
              => (out'[r] = "error" /\ rendered'[r] = {} /\ outUsers'[r] = Undefined)]_vars

C8_Witness ==
    \E r \in Reqs :
        /\ page[r] = "protected" /\ authed[r] /\ dbReads[r] = 1
        /\ pc[r] = "done" /\ out[r] = "error" /\ rendered[r] = {}

\* C9: the protected HomePage calls getUsers only after requireAuth() passed;
\* a request without a session causes no getUsers call at all.
C9_NoReadBeforeAuth ==
    \A r \in Reqs : page[r] = "protected" =>
        /\ dbReads[r] > 0 =>
              (requireAuth(authed[r]) = "ok" /\ pc[r] \in {"awaitUsers", "done"})
        /\ requireAuth(authed[r]) = "redirect" => dbReads[r] = 0

C9_Witness ==
    \E r1, r2 \in Reqs :
        /\ page[r1] = "protected" /\ ~authed[r1] /\ pc[r1] = "done" /\ dbReads[r1] = 0
        /\ page[r2] = "protected" /\ authed[r2] /\ pc[r2] = "awaitUsers" /\ dbReads[r2] = 1

\* C10: a getUsers failure during the server prefetch leaves the response
\* as it was returned (the HydrationBoundary/Suspense/Client tree), the
\* dehydrated state holds no getUsers data, and a Client that is past the
\* dehydrated promise has requested getUsers itself.
C10_PrefetchFailureIsSilent ==
    \A r \in Reqs : serverFetch[r] = "failed" =>
        /\ out[r] = "html"
        /\ rendered[r] = PrefetchParts
        /\ ~DehydratedHasData(r)
        /\ (view[r] # "unmounted" /\ clientCache[r].source # "promise") => netReqs[r] >= 1

C10_Witness ==
    \E r \in Reqs :
        /\ serverFetch[r] = "failed" /\ out[r] = "html"
        /\ view[r] = "data" /\ clientCache[r].source = "network" /\ netReqs[r] >= 1

====
